---- MODULE Spec2Model ----
(***************************************************************************)
(* Conjunction screening engine of the satellite operations console.       *)
(*                                                                         *)
(* The repository holds two copies of screenConjunctions:                  *)
(*   - src/src/services/tle.ts:117-214, threshold 100 km, tiers 5/25 km    *)
(*   - src/src/services/conjunction.ts:58-142, threshold 500 km, tiers     *)
(*     50/200 km (the copy api.ts imports).                                *)
(* Both run the same triple loop (satellite, sample time, debris element); *)
(* the variable impl says which copy an invocation runs.                   *)
(*                                                                         *)
(* Propagation is floating-point trigonometry (userSatEciAt) and SGP4      *)
(* (satellite.js).  It is modelled as a deterministic ephemeris on an      *)
(* integer lattice: what the screener relies on is only that a position    *)
(* is a function of (satellite, seconds since now), resp. of (element,     *)
(* absolute time), and that debris propagation may yield no position or    *)
(* throw.  Distances are whole kilometres, times are milliseconds.         *)
(*                                                                         *)
(* Around the screener the module holds the storm check (services/noaa.ts, *)
(* KpSpec), the aggregator fetchThreats (api.ts, FetchSpec), the store     *)
(* with the threat panel and the refresh cycle of App.tsx (StoreSpec, and  *)
(* OverlapSpec with refreshes that overlap), the satellite form and the    *)
(* bulk import (FormSpec) and the TLE feed parser (ParseSpec).  FaultSpec  *)
(* is the screener called with a satellite array that holds a null.  Each  *)
(* specification moves the variables of its component and leaves the       *)
(* others at their initial values.                                         *)
(***************************************************************************)
EXTENDS Integers, Sequences, FiniteSets, TLC

VARIABLES
    clock,        \* wall clock read by `new Date()`, ms
    idCtr,        \* number of ids handed out by crypto.randomUUID()
    pc,           \* "idle" | "screening" | "returned"
    impl,         \* which copy of screenConjunctions runs: "tle" | "conjunction"
    userSats,     \* argument userSats
    debrisCache,  \* argument debrisCache (NoCache when undefined)
    calledAt,     \* clock value when the invocation was made
    now,          \* local `now`
    end,          \* local `end`
    ui,           \* index of the satellite `u` of the outer for-of loop
    best,         \* local `best` = {d, when} of the satellite screened last
    threats,      \* local `threats`; the returned array once pc = "returned"
    status,       \* how the invocation ended: "ok" | "caught"
    results,      \* the "closest approach" lines logged, one per screened satellite
    samples,      \* dtSec values handed to userSatEciAt for the satellite screened last
    tried,        \* number of tleEciAt calls made for the satellite screened last
    propCalls,    \* position evaluations (user and debris) made by the invocation
    prev          \* outcome of the preceding invocation when it had the same arguments

\* The threat aggregator (api.ts) and the storm check (services/noaa.ts).
VARIABLES
    kpc,          \* fetchKpThreat: "idle" | "pending" (awaiting fetch) | "settled"
    kpFeed,       \* what the request to KP_URL yields
    kpThreat,     \* what fetchKpThreat settled with
    fpc,          \* fetchThreats: "idle" | "awaitKp" | "kpDone" | "awaitConj" | "resolved" | "rejected"
    fargs,        \* fetchThreats' arguments satellites and debrisCache
    fetched       \* the array fetchThreats resolved with

\* The store (store.ts), the threat panel and the satellite form.
VARIABLES
    satellites,         \* store.satellites
    storeThreats,       \* store.threats
    actionLog,          \* store.actionLog, newest first
    executedThreatIds,  \* store.executedThreatIds
    storeDebris,        \* store.debrisCache
    rendered,           \* what the threat panel rendered last: threats and executed ids
    inflight,           \* the refreshThreats calls awaiting fetchThreats, with their arguments
    effectDue,          \* store.satellites changed and the effect on it has not run yet
    timer,              \* the interval set by the effect on [satellites.length], with what its closure holds
    refreshFailed,      \* the fetchThreats that settled last met an error in one of its sources
    appliedOlder        \* store.threats was computed by a refresh started before one already applied

\* The TLE feed parser (loadTLEs of services/tle.ts, parseTLE).
VARIABLES
    txt,          \* the feed text, as its lines (txt.split(/\r?\n/)); a line is a tuple of characters
    limit,        \* argument limit
    out,          \* the records parsed
    parser,       \* "idle" | "ready" | "done" | "threw"
    which         \* the parser run: "loadTLEs" | "parseTLE"

screenVars == <<clock, idCtr, pc, impl, userSats, debrisCache, calledAt, now, end, ui,
                best, threats, status, results, samples, tried, propCalls, prev>>
kpVars == <<kpc, kpFeed, kpThreat>>
fetchVars == <<fpc, fargs, fetched>>
storeVars == <<satellites, storeThreats, actionLog, executedThreatIds, storeDebris,
               rendered, inflight, effectDue, timer, refreshFailed, appliedOlder>>
parserVars == <<txt, limit, out, parser, which>>

vars == <<screenVars, kpVars, fetchVars, storeVars, parserVars>>

----------------------------------------------------------------------------
(* Bounds of the model *)

MaxSats == 2
MaxDebris == 2
MaxClockTicks == 1
MaxUuid == 4
MaxKpReadings == 2
MaxInflight == 1
MaxOverlap == 2
MaxGroups == 3
MaxLimit == 2

----------------------------------------------------------------------------
(* Program constants *)

HORIZON_HOURS == 2
STEP_SEC == 5 * 60
THRESHOLD_KM_TLE == 100
THRESHOLD_KM_CONJ == 500
POSITIVE_INFINITY == 1000000000

StepMs == STEP_SEC * 1000
HorizonMs == HORIZON_HOURS * 3600 * 1000

THRESHOLD_KM(im) == IF im = "tle" THEN THRESHOLD_KM_TLE ELSE THRESHOLD_KM_CONJ

Impls == {"tle", "conjunction"}

----------------------------------------------------------------------------
(* Inputs: user satellites and debris elements *)

Abs(n) == IF n < 0 THEN -n ELSE n

\* A user satellite.  Its orbital elements are reduced to a track on the
\* x axis: x0 at even sample steps, x0 + wobble at odd ones.
SatPool ==
    { [name |-> "SAT-A", x0 |-> 0, wobble |-> 0],
      [name |-> "SAT-B", x0 |-> 1, wobble |-> 1] }

\* A debris element.  Its two lines are reduced to an ephemeris: closest to
\* the origin at absolute time tca, at (x, y, 0), receding `rate` km per
\* sample step on either side; `bad` says when propagation fails.
\* DebrisFeed is the catalogue feed, in feed order.
DebrisFeed ==
    << [name |-> "DEB-5",   x |-> 3,   y |-> 4, tca |-> 24 * StepMs, rate |-> 2,  bad |-> "never"],
       [name |-> "DEB-25",  x |-> 25,  y |-> 0, tca |-> 0,           rate |-> 0,  bad |-> "nopos_even"],
       [name |-> "DEB-50",  x |-> 50,  y |-> 0, tca |-> 12 * StepMs, rate |-> 0,  bad |-> "throw_odd"],
       [name |-> "DEB-100", x |-> 100, y |-> 0, tca |-> StepMs,      rate |-> 50, bad |-> "never"],
       [name |-> "DEB-200", x |-> 200, y |-> 0, tca |-> 12 * StepMs, rate |-> 25, bad |-> "never"],
       [name |-> "DEB-500", x |-> 500, y |-> 0, tca |-> 0,           rate |-> 0,  bad |-> "never"],
       [name |-> "DEB-BAD", x |-> 0,   y |-> 0, tca |-> 0,           rate |-> 0,  bad |-> "throw_always"] >>

SeqsUpTo(S, n) == UNION { [1..m -> S] : m \in 0..n }

\* A `null` in the satellite array: nothing checks the elements at run time,
\* and reading an orbital element of it raises a TypeError.
NullSat == [name |-> "null", x0 |-> 0, wobble |-> 0]

\* The elements of the feed at the positions S, in feed order.
RECURSIVE FeedAt(_)
FeedAt(S) ==
    IF S = {} THEN <<>>
    ELSE LET m == CHOOSE x \in S : \A y \in S : x <= y
         IN  <<DebrisFeed[m]>> \o FeedAt(S \ {m})

\* debrisCache is optional: undefined, or an array (possibly empty).
NoCache == [defined |-> FALSE, items |-> <<>>]
Cache(items) == [defined |-> TRUE, items |-> items]

\* The satellite lists and the debris caches a caller may hold: a cache is
\* what loadTLEs kept of the feed, at most MaxDebris elements.
SatLists == SeqsUpTo(SatPool, MaxSats)

\* The same with arrays that break the contract by holding a `null`.
FaultLists == SeqsUpTo(SatPool \cup {NullSat}, MaxSats)
DebrisCaches ==
    {NoCache} \cup
    { Cache(FeedAt(S)) : S \in { X \in SUBSET (DOMAIN DebrisFeed) : Cardinality(X) <= MaxDebris } }

NoTime == 0 - 1
NoPrev == [some |-> FALSE]

\* No request made yet; `null` of fetchKpThreat.
NoFeed == [net |-> "none", body |-> "none", isArray |-> FALSE, items |-> <<>>]
NoThreat == [some |-> FALSE]

----------------------------------------------------------------------------
(* Propagation and distance *)

\* userSatEciAt(s, tSinceEpochSec): never fails, a function of the satellite
\* and of the seconds elapsed since `now`.
userSatEciAt(s, tSinceEpochSec) ==
    <<s.x0 + s.wobble * ((tSinceEpochSec \div STEP_SEC) % 2), 0, 0>>

\* sat.twoline2satrec + sat.propagate for element tle at absolute time date:
\* a position, no position, or an exception.
Sgp4(tle, date) ==
    LET k == date \div StepMs
    IN  IF tle.bad = "throw_always" \/ (tle.bad = "throw_odd" /\ k % 2 = 1)
          THEN [kind |-> "throw"]
        ELSE IF tle.bad = "nopos_even" /\ k % 2 = 0
          THEN [kind |-> "nopos"]
        ELSE [kind |-> "pos",
              pos  |-> <<tle.x + tle.rate * (Abs(date - tle.tca) \div StepMs), tle.y, 0>>]

Null == [kind |-> "null"]

\* The same without the try/catch: the exception escapes to the caller.
tleEciAtNoCatch(tle, date) ==
    LET pv == Sgp4(tle, date)
    IN  IF pv.kind = "throw" THEN [kind |-> "exc"]
        ELSE IF pv.kind = "nopos" THEN Null
        ELSE pv

\* tleEciAt(tle, date): the position, or null when there is none or when the
\* library throws.
tleEciAt(tle, date) ==
    LET pv == Sgp4(tle, date)
    IN  IF pv.kind = "throw" THEN Null
        ELSE IF pv.kind = "nopos" THEN Null
        ELSE pv

\* Math.sqrt on whole kilometres (rounded down).
Sqrt(n, hi) == CHOOSE r \in 0..hi : r * r <= n /\ n < (r + 1) * (r + 1)

distKm(a, b) ==
    LET dx == a[1] - b[1]
        dy == a[2] - b[2]
        dz == a[3] - b[3]
    IN  IF dy = 0 /\ dz = 0 THEN Abs(dx)
        ELSE Sqrt(dx * dx + dy * dy + dz * dz, Abs(dx) + Abs(dy) + Abs(dz))

----------------------------------------------------------------------------
(* screenConjunctions: the pieces of the loop *)

\* `t <= end` taken as `t < end`.
InHorizonStrict(tt, en) == tt < en

\* The condition of the time loop.
InHorizon(tt, en) == tt <= en

\* A step of twice the length.
NextSampleDouble(tt) == tt + 2 * StepMs

\* The increment of the time loop.
NextSample(tt) == tt + StepMs

\* `d < best.d` taken as `d <= best.d`.
UpdateBestLE(b, d, tt) == IF d <= b.d THEN [d |-> d, when |-> tt] ELSE b

\* if (d < best.d) best = { d, when: new Date(t) }
UpdateBest(b, d, tt) == IF d < b.d THEN [d |-> d, when |-> tt] ELSE b

\* let best = { d: Number.POSITIVE_INFINITY, when: now }
InitBest(nw) == [d |-> POSITIVE_INFINITY, when |-> nw]

\* The body of the inner loop for one element whose propagation gave
\* pDebris.  acc = [best, tried, threw]; threw says an exception left the loop.
ScanOne(acc, pUser, pDebris, tt) ==
    IF pDebris.kind = "exc"
      THEN [best |-> acc.best, tried |-> acc.tried + 1, threw |-> TRUE]
    ELSE IF pDebris.kind = "null"
      THEN \* if (!pDebris) continue
           [best |-> acc.best, tried |-> acc.tried + 1, threw |-> FALSE]
    ELSE [best  |-> UpdateBest(acc.best, distKm(pUser, pDebris.pos), tt),
          tried |-> acc.tried + 1,
          threw |-> FALSE]

\* for (const tle of debris), from element k on, at sample time tt.
RECURSIVE ScanDebris(_, _, _, _, _)
ScanDebris(acc, pUser, debris, tt, k) ==
    IF k > Len(debris) \/ acc.threw THEN acc
    ELSE ScanDebris(ScanOne(acc, pUser, tleEciAt(debris[k], tt), tt),
                    pUser, debris, tt, k + 1)

\* One iteration of the time loop, given the outcome inner of its inner
\* loop.  acc = [best, tried, threw, samples].
AfterScan(acc, inner, dtSec) ==
    [best |-> inner.best, tried |-> inner.tried, threw |-> inner.threw,
     samples |-> Append(acc.samples, dtSec)]

\* const dtSec = ...; const pUser = userSatEciAt(u, dtSec); for (const tle of debris) ...
\* userSatEciAt reads s.semiMajorAxisKm first: on a null satellite that throws
\* before any debris is propagated.
SampleOne(acc, u, debris, tt, dtSec) ==
    IF u = NullSat
      THEN AfterScan(acc, [best |-> acc.best, tried |-> acc.tried, threw |-> TRUE], dtSec)
      ELSE AfterScan(acc,
                     ScanDebris([best |-> acc.best, tried |-> acc.tried, threw |-> FALSE],
                                userSatEciAt(u, dtSec), debris, tt, 1),
                     dtSec)

\* for (let t = new Date(now); t <= end; t = new Date(t.getTime() + STEP_SEC * 1000))
\* for one satellite u, from sample time tt on.
RECURSIVE TimeLoop(_, _, _, _, _, _)
TimeLoop(acc, u, debris, tt, nw, en) ==
    IF ~InHorizon(tt, en) \/ acc.threw THEN acc
    ELSE TimeLoop(SampleOne(acc, u, debris, tt, (tt - nw) \div 1000),
                  u, debris, NextSample(tt), nw, en)

\* `best.d < THRESHOLD_KM` taken as `best.d <= THRESHOLD_KM`.
IsThreatLE(d, im) == d <= THRESHOLD_KM(im)

\* if (best.d < THRESHOLD_KM)
IsThreat(d, im) == d < THRESHOLD_KM(im)

\* The tiers of tle.ts with `<=` for `<`.
SeverityTleLE(d) == IF d <= 5 THEN "HIGH" ELSE IF d <= 25 THEN "MEDIUM" ELSE "LOW"

\* The tiers of tle.ts.
SeverityTle(d) == IF d < 5 THEN "HIGH" ELSE IF d < 25 THEN "MEDIUM" ELSE "LOW"

\* The tiers of conjunction.ts with `<=` for `<`.
SeverityConjLE(d) == IF d <= 50 THEN "HIGH" ELSE IF d <= 200 THEN "MEDIUM" ELSE "LOW"

\* The tiers of conjunction.ts.
SeverityConj(d) == IF d < 50 THEN "HIGH" ELSE IF d < 200 THEN "MEDIUM" ELSE "LOW"

Severity(d, im) == IF im = "tle" THEN SeverityTle(d) ELSE SeverityConj(d)

\* suggestedAction: keyed off best.d (5/25) in tle.ts, off severity in conjunction.ts.
SuggestedAction(d, im) ==
    IF im = "tle"
      THEN (IF d < 5 THEN "radial-out" ELSE IF d < 25 THEN "prograde" ELSE "monitor")
      ELSE (IF Severity(d, im) = "HIGH" THEN "radial-out"
            ELSE IF Severity(d, im) = "MEDIUM" THEN "prograde" ELSE "monitor")

\* The object pushed onto threats; sat and d are what the description quotes.
MkThreat(id, u, b, im) ==
    [id |-> id, type |-> "CONJUNCTION", when |-> b.when, severity |-> Severity(b.d, im),
     sat |-> u.name, d |-> b.d, suggestedAction |-> SuggestedAction(b.d, im)]

\* With a built-in test catalogue used when nothing is cached.
SelectDebrisFallback(cache) ==
    IF cache.defined /\ Len(cache.items) > 0
      THEN [skip |-> FALSE, debris |-> cache.items]
      ELSE [skip |-> FALSE,
            debris |-> <<DebrisFeed[1]>>]

\* if (debrisCache && debrisCache.length > 0) debris = debrisCache; else return []
SelectDebris(cache) ==
    IF cache.defined /\ Len(cache.items) > 0
      THEN [skip |-> FALSE, debris |-> cache.items]
      ELSE [skip |-> TRUE, debris |-> <<>>]

\* The guard left out.
NoSatsNever(sats) == FALSE

\* !userSats.length
NoSats(sats) == Len(sats) = 0

\* A threats array that outlives the invocation.
KeepThreats(old) == old

\* const threats: Threat[] = []
NewThreats(old) == <<>>

----------------------------------------------------------------------------
(* Storm check: services/noaa.ts *)

\* A JSON field value: absent (undefined or null), a number, or something
\* Number() turns into NaN.
Absent == [kind |-> "absent", v |-> 0]
Num(n) == [kind |-> "num", v |-> n]
NotNumeric == [kind |-> "nan", v |-> 0]

\* A time_tag: absent, a parsable date (ms), or an unparsable string.
NoTag == [kind |-> "absent", t |-> 0]
Tag(t) == [kind |-> "valid", t |-> t]
BadTag == [kind |-> "invalid", t |-> 0]

\* One reading of the feed array; NullEntry is a `null` element.
Reading(ki, k, tag) == [isObject |-> TRUE, kp_index |-> ki, kp |-> k, time_tag |-> tag]
NullEntry == [isObject |-> FALSE, kp_index |-> Absent, kp |-> Absent, time_tag |-> NoTag]

KpEntries ==
    { Reading(ki, k, tag) :
         ki \in {Absent, Num(4), Num(5), Num(6), Num(7), NotNumeric},
         k \in {Absent, Num(4), Num(7)},
         tag \in {NoTag, Tag(StepMs), BadTag} }
    \cup {NullEntry}

\* Older readings, ahead of the latest one in the array.
KpOlder == { Reading(Num(9), Absent, NoTag), Reading(Num(0), Absent, NoTag) }

\* What the request can yield: a network error, a body that is no JSON, a
\* JSON value that is no array, or an array of readings.
KpArray(items) == [net |-> "ok", body |-> "json", isArray |-> TRUE, items |-> items]
KpFeeds ==
    { [net |-> "error", body |-> "none", isArray |-> FALSE, items |-> <<>>],
      [net |-> "ok", body |-> "text", isArray |-> FALSE, items |-> <<>>],
      [net |-> "ok", body |-> "json", isArray |-> FALSE, items |-> <<>>],
      KpArray(<<>>) }
    \cup { KpArray(Append(older, latest)) :
              older \in SeqsUpTo(KpOlder, MaxKpReadings - 1), latest \in KpEntries }

\* a ?? b
Coalesce(a, b) == IF a.kind = "absent" THEN b ELSE a

\* Number(x): undefined and non-numeric strings give NaN.
Number(x) == [nan |-> x.kind # "num", v |-> x.v]

\* kp >= n; false for NaN.
Geq(kp, n) == ~kp.nan /\ kp.v >= n

\* With the bounds taken exclusive.
KpSeverityGT(kp) ==
    IF ~kp.nan /\ kp.v > 7 THEN "HIGH"
    ELSE IF ~kp.nan /\ kp.v > 5 THEN "MEDIUM"
    ELSE "none"

\* if (kp >= 7) HIGH; else if (kp >= 5) MEDIUM; else null
KpSeverity(kp) ==
    IF Geq(kp, 7) THEN "HIGH"
    ELSE IF Geq(kp, 5) THEN "MEDIUM"
    ELSE "none"

\* How a call ends; ids counts the crypto.randomUUID() calls it made.
Returns(v) == [kind |-> "return", value |-> v, ids |-> IF v.some THEN 1 ELSE 0]
Throws == [kind |-> "throw", value |-> NoThreat, ids |-> 0]
ThrowsAfterId == [kind |-> "throw", value |-> NoThreat, ids |-> 1]

\* The threat object of noaa.ts:28-35.
MkStorm(id, latest, kp, sev, clk) ==
    [id |-> id, type |-> "CME",
     when |-> IF latest.time_tag.kind = "absent" THEN clk ELSE latest.time_tag.t,
     severity |-> sev, kp |-> kp.v,
     suggestedAction |-> "Enter safe mode and shut down non-critical systems."]

\* What the latest reading gives (noaa.ts:16-35).
KpFromLatest(latest, id, clk) ==
    IF ~latest.isObject THEN Throws         \* property read on null: TypeError
    ELSE LET kp  == Number(Coalesce(latest.kp_index, latest.kp))
             sev == KpSeverity(kp)
         IN  IF sev = "none" THEN Returns(NoThreat)
             ELSE IF latest.time_tag.kind = "invalid"
                    THEN ThrowsAfterId      \* toISOString of an invalid date: RangeError
                    ELSE Returns([some |-> TRUE, threat |-> MkStorm(id, latest, kp, sev, clk)])

\* The try block of fetchKpThreat (noaa.ts:11-35).
KpTry(feed, id, clk) ==
    IF feed.net # "ok" THEN Throws              \* fetch rejects
    ELSE IF feed.body # "json" THEN Throws      \* res.json() rejects
    ELSE IF ~feed.isArray \/ Len(feed.items) = 0 THEN Returns(NoThreat)
    ELSE KpFromLatest(feed.items[Len(feed.items)], id, clk)

\* Without the catch.
fetchKpThreatNoCatch(feed, id, clk) == KpTry(feed, id, clk)

\* fetchKpThreat: try { ... } catch { return null }
fetchKpThreat(feed, id, clk) ==
    LET r == KpTry(feed, id, clk)
    IN  IF r.kind = "throw" THEN [kind |-> "return", value |-> NoThreat, ids |-> r.ids] ELSE r

----------------------------------------------------------------------------
(* State machine *)

\* The screener before its first invocation.
ScreenInit ==
    /\ clock = 0
    /\ idCtr = 0
    /\ pc = "idle"
    /\ impl = "tle"
    /\ userSats = <<>>
    /\ debrisCache = NoCache
    /\ calledAt = 0
    /\ now = NoTime
    /\ end = NoTime
    /\ ui = 0
    /\ best = InitBest(NoTime)
    /\ threats = <<>>
    /\ status = "ok"
    /\ results = <<>>
    /\ samples = <<>>
    /\ tried = 0
    /\ propCalls = 0
    /\ prev = NoPrev

\* No storm check and no aggregation under way.
FetchInit ==
    /\ kpc = "idle"
    /\ kpFeed = NoFeed
    /\ kpThreat = NoThreat
    /\ fpc = "idle"
    /\ fargs = [satellites |-> <<>>, debrisCache |-> NoCache]
    /\ fetched = <<>>

\* No interval: the effect on [satellites.length] returned early, or was
\* cleaned up.
NoTimer == [on |-> FALSE, len |-> 0, satellites |-> <<>>, debrisCache |-> <<>>]

\* The store as `create` builds it; the panel has rendered it.
StoreInit ==
    /\ satellites = <<>>
    /\ storeThreats = <<>>
    /\ actionLog = <<>>
    /\ executedThreatIds = {}
    /\ storeDebris = <<>>
    /\ rendered = [threats |-> <<>>, executed |-> {}]
    /\ inflight = <<>>
    /\ effectDue = FALSE
    /\ timer = NoTimer
    /\ refreshFailed = FALSE
    /\ appliedOlder = FALSE

\* No feed text handed to the parser.
ParserInit ==
    /\ txt = <<>>
    /\ limit = 0
    /\ out = <<>>
    /\ parser = "idle"
    /\ which = "loadTLEs"

Init == ScreenInit /\ FetchInit /\ StoreInit /\ ParserInit

\* The wall clock advances between invocations (the body of
\* screenConjunctions has no await: it runs to completion once entered).
Tick ==
    /\ pc # "screening"
    /\ clock < MaxClockTicks * StepMs
    /\ clock' = clock + StepMs
    /\ UNCHANGED <<idCtr, pc, impl, userSats, debrisCache, calledAt, now, end, ui, best,
                   threats, status, results, samples, tried, propCalls, prev>>
    /\ UNCHANGED <<kpVars, fetchVars, storeVars, parserVars>>

\* What an invocation leaves behind for the next one to be compared with.
Outcome ==
    [some |-> TRUE, calledAt |-> calledAt, threats |-> threats,
     results |-> results, status |-> status]

\* The body of screenConjunctions(sats, cache) of copy im up to the first
\* iteration of the satellite loop: the guards, `now` and `end`.
Enter(sats, cache, im) ==
    /\ idCtr + Len(sats) <= MaxUuid
    /\ userSats' = sats
    /\ debrisCache' = cache
    /\ impl' = im
    /\ calledAt' = clock
    /\ results' = <<>>
    /\ samples' = <<>>
    /\ tried' = 0
    /\ propCalls' = 0
    /\ ui' = 0
    /\ IF NoSats(sats)
         THEN \* if (!userSats.length) return []
              /\ pc' = "returned" /\ status' = "ok" /\ threats' = <<>>
              /\ now' = NoTime /\ end' = NoTime /\ best' = InitBest(NoTime)
         ELSE LET sel == SelectDebris(cache)
              IN  IF sel.skip \/ Len(sel.debris) = 0
                    THEN \* "No debris cache available": return []
                         /\ pc' = "returned" /\ status' = "ok" /\ threats' = <<>>
                         /\ now' = NoTime /\ end' = NoTime /\ best' = InitBest(NoTime)
                    ELSE /\ pc' = "screening" /\ status' = "ok"
                         /\ threats' = NewThreats(threats)
                         /\ now' = clock
                         /\ end' = clock + HorizonMs
                         /\ best' = InitBest(clock)
    /\ UNCHANGED <<clock, idCtr>>

\* The first threat check of the session, on the satellites and the debris
\* cache the caller holds.
Invoke(sats, cache, im) ==
    /\ pc = "idle"
    /\ prev' = NoPrev
    /\ Enter(sats, cache, im)
    /\ UNCHANGED <<kpVars, fetchVars, storeVars, parserVars>>

\* A later threat check (the periodic or manual refresh) on the same
\* satellites and debris cache.
Reinvoke ==
    /\ pc = "returned"
    /\ prev' = Outcome
    /\ Enter(userSats, debrisCache, impl)
    /\ UNCHANGED <<kpVars, fetchVars, storeVars, parserVars>>

\* A catch that returns what the pass had built so far.
CaughtKeeps(built) == built

\* catch (error) { console.error(...); return []; }
Caught(built) == <<>>

\* What one iteration of the satellite loop does with the outcome r of its
\* time loop: the log line and the threshold check.  An exception goes to
\* the catch of screenConjunctions: return [].
Conclude(u, r) ==
    /\ best' = r.best
    /\ samples' = r.samples
    /\ tried' = r.tried
    /\ propCalls' = propCalls + Len(r.samples) + r.tried
    /\ IF r.threw
         THEN /\ pc' = "returned" /\ status' = "caught" /\ threats' = Caught(threats)
              /\ UNCHANGED <<ui, results, idCtr>>
         ELSE /\ ui' = ui + 1
              /\ results' = Append(results, [name |-> u.name, d |-> r.best.d,
                                             when |-> r.best.when])
              /\ IF IsThreat(r.best.d, impl)
                   THEN /\ threats' = Append(threats, MkThreat(idCtr + 1, u, r.best, impl))
                        /\ idCtr' = idCtr + 1
                   ELSE UNCHANGED <<threats, idCtr>>
              /\ UNCHANGED <<pc, status>>

\* With one `best` for the whole pass, carried from satellite to satellite.
CarriedBest(carried, nw) == carried

\* let best = { d: Infinity, when: now }, declared inside the satellite loop:
\* whatever the satellite before left in `best` is not seen.
StartBest(carried, nw) == InitBest(nw)

\* One iteration of `for (const u of userSats)`.
ScreenSat ==
    /\ pc = "screening"
    /\ ui < Len(userSats)
    /\ \E r \in { TimeLoop([best |-> StartBest(best, now), tried |-> 0, threw |-> FALSE,
                            samples |-> <<>>],
                           userSats[ui + 1], SelectDebris(debrisCache).debris,
                           now, now, end) } :
          Conclude(userSats[ui + 1], r)
    /\ UNCHANGED <<clock, impl, userSats, debrisCache, calledAt, now, end, prev>>
    /\ UNCHANGED <<kpVars, fetchVars, storeVars, parserVars>>

\* After the last satellite: return threats.
Return ==
    /\ pc = "screening"
    /\ ui = Len(userSats)
    /\ pc' = "returned"
    /\ UNCHANGED <<clock, idCtr, impl, userSats, debrisCache, calledAt, now, end, ui, best,
                   threats, status, results, samples, tried, propCalls, prev>>
    /\ UNCHANGED <<kpVars, fetchVars, storeVars, parserVars>>

Next ==
    \/ Tick
    \/ \E sats \in SatLists, cache \in DebrisCaches, im \in Impls : Invoke(sats, cache, im)
    \/ Reinvoke
    \/ ScreenSat
    \/ Return

Spec == Init /\ [][Next]_vars

\* The screener called by code that does not keep to the contract: the
\* satellite array may hold a `null`.
FaultInvoke == \E sats \in FaultLists, cache \in DebrisCaches, im \in Impls : Invoke(sats, cache, im)

FaultNext ==
    \/ FaultInvoke
    \/ ScreenSat
    \/ Return

FaultSpec == Init /\ [][FaultNext]_vars

----------------------------------------------------------------------------
(* The storm check on its own *)

screenVarsButId == <<clock, pc, impl, userSats, debrisCache, calledAt, now, end, ui,
                     best, threats, status, results, samples, tried, propCalls, prev>>

\* fetchKpThreat is called: the request to KP_URL goes out (noaa.ts:11).
CallKp(feed) ==
    /\ kpc = "idle"
    /\ idCtr < MaxUuid
    /\ kpc' = "pending"
    /\ kpFeed' = feed
    /\ UNCHANGED kpThreat

\* The request settles and the rest of fetchKpThreat runs with outcome r.
SettleKp(r) ==
    /\ kpc = "pending"
    /\ kpc' = IF r.kind = "throw" THEN "threw" ELSE "settled"
    /\ kpThreat' = r.value
    /\ idCtr' = idCtr + r.ids

KpCheck(feed) ==
    /\ fpc = "idle"
    /\ CallKp(feed)
    /\ UNCHANGED <<screenVars, fetchVars, storeVars, parserVars>>

KpSettle ==
    /\ fpc = "idle"
    /\ SettleKp(fetchKpThreat(kpFeed, idCtr + 1, clock))
    /\ UNCHANGED <<screenVarsButId, kpFeed, fetchVars, storeVars, parserVars>>

\* The caller has its answer; a later check may follow.
KpDone ==
    /\ fpc = "idle"
    /\ kpc \in {"settled", "threw"}
    /\ kpc' = "idle"
    /\ UNCHANGED <<screenVars, kpFeed, kpThreat, fetchVars, storeVars, parserVars>>

KpNext ==
    \/ Tick
    \/ \E feed \in KpFeeds : KpCheck(feed)
    \/ KpSettle
    \/ KpDone

KpSpec == Init /\ [][KpNext]_vars

----------------------------------------------------------------------------
(* The threat aggregator: fetchThreats of api.ts *)

\* The feeds the aggregator is run against: no answer, a quiet reading, a storm.
FetchFeeds ==
    { [net |-> "error", body |-> "none", isArray |-> FALSE, items |-> <<>>],
      KpArray(<<Reading(Num(4), Absent, NoTag)>>),
      KpArray(<<Reading(Num(7), Absent, NoTag)>>) }

\* The conjunction threats first.
MergeConjFirst(kp, conj) ==
    conj \o (IF kp.some THEN <<kp.threat>> ELSE <<>>)

\* Nothing at all unless the storm check gave a threat.
MergeAllOrNothing(kp, conj) ==
    IF kp.some THEN <<kp.threat>> \o conj ELSE <<>>

\* if (kpThreat) threats.push(kpThreat); ... threats.push(...conj)
Merge(kp, conj) ==
    (IF kp.some THEN <<kp.threat>> ELSE <<>>) \o conj

\* fetchThreats(sats, cache) is called and awaits fetchKpThreat() (api.ts:10-13).
FetchCall(sats, cache, feed) ==
    /\ fpc = "idle"
    /\ pc = "idle"
    /\ idCtr + 1 + Len(sats) <= MaxUuid
    /\ CallKp(feed)
    /\ fpc' = "awaitKp"
    /\ fargs' = [satellites |-> sats, debrisCache |-> cache]
    /\ UNCHANGED <<screenVars, fetched, storeVars, parserVars>>

\* The storm check settles; fetchThreats resumes and pushes kpThreat
\* (api.ts:13-14).  Were fetchKpThreat to throw, fetchThreats would reject.
FetchKpSettled ==
    /\ fpc = "awaitKp"
    /\ \E r \in { fetchKpThreat(kpFeed, idCtr + 1, clock) } :
          /\ SettleKp(r)
          /\ fpc' = IF r.kind = "throw" THEN "rejected" ELSE "kpDone"
    /\ UNCHANGED <<screenVarsButId, kpFeed, fargs, fetched, storeVars, parserVars>>

\* fetchThreats calls screenConjunctions(satellites, debrisCache), the copy
\* of services/conjunction.ts (api.ts:17).
FetchScreen ==
    /\ fpc = "kpDone"
    /\ fpc' = "awaitConj"
    /\ Enter(fargs.satellites, fargs.debrisCache, "conjunction")
    /\ UNCHANGED <<prev, kpVars, fargs, fetched, storeVars, parserVars>>

\* screenConjunctions has returned: threats.push(...conj); return threats
\* (api.ts:18-21).
FetchResolve ==
    /\ fpc = "awaitConj"
    /\ pc = "returned"
    /\ fpc' = "resolved"
    /\ fetched' = Merge(kpThreat, threats)
    /\ UNCHANGED <<screenVars, kpVars, fargs, storeVars, parserVars>>

\* Time passes while fetchThreats awaits the network or is not running.
FetchTick ==
    /\ fpc \in {"idle", "awaitKp", "resolved"}
    /\ Tick

FetchNext ==
    \/ FetchTick
    \/ \E sats \in SatLists, cache \in DebrisCaches, feed \in FetchFeeds :
          FetchCall(sats, cache, feed)
    \/ FetchKpSettled
    \/ FetchScreen
    \/ ScreenSat
    \/ Return
    \/ FetchResolve

FetchSpec == Init /\ [][FetchNext]_vars

----------------------------------------------------------------------------
(* The store, the satellite form and the threat panel *)

\* Numbers of the form and of the importer are in thousandths (km, degrees,
\* eccentricity); Infinity is the floating-point +Infinity.
Infinity == [kind |-> "inf", v |-> 0]
EARTH_RADIUS == 6371 * 1000

\* parseFloat on the texts the form is tried with.
parseFloat(t) ==
    CASE t = "6000" -> Num(6000 * 1000)
      [] t = "6371" -> Num(6371 * 1000)
      [] t = "7000" -> Num(7000 * 1000)
      [] t = "Infinity" -> Infinity
      [] t = "-1" -> Num(0 - 1000)
      [] t = "0" -> Num(0)
      [] t = "98" -> Num(98 * 1000)
      [] t = "181" -> Num(181 * 1000)
      [] t = "1" -> Num(1000)
      [] OTHER -> NotNumeric          \* "", "abc"

SmaTexts == {"", "6000", "6371", "7000", "Infinity"}
IncTexts == {"abc", "-1", "98", "181"}
EccTexts == {"", "-1", "0", "1"}
NameTexts == {"", "ISS"}

\* isNaN(x), x < n and x > n on floating-point values.
isNaN(x) == x.kind = "nan"
Lt(x, n) == x.kind = "num" /\ x.v < n
Gt(x, n) == x.kind = "inf" \/ (x.kind = "num" /\ x.v > n)

\* The checks of handleSubmit (SatelliteForm.tsx:33-54): TRUE when the form
\* alerts and returns.
FormRejects(sma, inc, ecc) ==
    \/ isNaN(sma) \/ isNaN(inc) \/ isNaN(ecc)
    \/ Lt(sma, EARTH_RADIUS)
    \/ Lt(inc, 0) \/ Gt(inc, 180 * 1000)
    \/ Lt(ecc, 0) \/ ~Lt(ecc, 1000)

Satellite(nm, sma, inc, ecc) ==
    [name |-> nm, semiMajorAxisKm |-> sma, inclinationDeg |-> inc, eccentricity |-> ecc]

\* The element sets the feed is tried with: an ISS-like orbit, an object
\* about to re-enter (17.2 revolutions a day) and a group whose second line
\* starts with "2 " but holds no numbers.
ImportPool ==
    << [name |-> "ISS (ZARYA)", no |-> Num(15500), inclo |-> Num(51600), ecco |-> Num(1)],
       [name |-> "DECAYING",    no |-> Num(17200), inclo |-> Num(51600), ecco |-> Num(1)],
       [name |-> "GARBLED",     no |-> NotNumeric, inclo |-> NotNumeric, ecco |-> NotNumeric] >>

\* Kepler's third law a = (mu / n^2)^(1/3) at the mean motions of the pool
\* (revolutions per day, in thousandths); NaN stays NaN.
SmaOfMeanMotion(no) ==
    CASE no = Num(15500) -> Num(6796 * 1000)
      [] no = Num(17200) -> Num(6340 * 1000)
      [] OTHER -> NotNumeric

\* tleToSatellite (satelliteLoader.ts:9-41): no range check on what
\* twoline2satrec read.
tleToSatellite(tle) ==
    Satellite(tle.name, SmaOfMeanMotion(tle.no), tle.inclo, tle.ecco)

RECURSIVE PoolAt(_)
PoolAt(ix) == IF ix = <<>> THEN <<>> ELSE <<ImportPool[Head(ix)]>> \o PoolAt(Tail(ix))

\* What loadTLEs can give: the groups of the feed, in feed order.
ImportFeeds ==
    { PoolAt(ix) : ix \in { q \in SeqsUpTo(DOMAIN ImportPool, MaxSats) :
                               Len(q) > 0 /\ \A i \in 1..(Len(q) - 1) : q[i] < q[i + 1] } }

\* A setThreats that leaves the executed ids alone.
KeptAll(new, executed) == executed

\* setThreats (store.ts:225-235): the executed ids that are ids of the new list.
KeptExecuted(new, executed) == { new[i].id : i \in DOMAIN new } \cap executed

setThreats(new) ==
    /\ storeThreats' = new
    /\ executedThreatIds' = KeptExecuted(new, executedThreatIds)

\* What fetchThreats resolves with for the satellites sats when the feed
\* shows a storm (or not) and the satellites with index in close have a
\* conjunction; ids are fresh (noaa.ts:29, conjunction.ts:119).
Fetched(sats, storm, close, clk, base) ==
    LET kp   == IF storm
                  THEN [some |-> TRUE,
                        threat |-> MkStorm(base + 1, Reading(Num(7), Absent, NoTag),
                                           Num(7), "HIGH", clk)]
                  ELSE NoThreat
        k    == IF storm THEN 1 ELSE 0
        flag == SelectSeq([i \in 1..Len(sats) |-> i], LAMBDA i : i \in close)
        conj == [j \in 1..Len(flag) |->
                   MkThreat(base + k + j, sats[flag[j]], [d |-> 40, when |-> clk],
                            "conjunction")]
    IN  Merge(kp, conj)

\* q.filter((_, k) => k !== i), indices from 1.
RemoveAt(q, i) == [k \in 1..(Len(q) - 1) |-> IF k < i THEN q[k] ELSE q[k + 1]]

storeVarsButSats == <<storeThreats, actionLog, executedThreatIds, storeDebris,
                      rendered, inflight, timer, refreshFailed, appliedOlder>>

\* The panel shows the store as it is: React has re-rendered since the last
\* store update.  Only clicks can come in before it has.
UpToDate == rendered = [threats |-> storeThreats, executed |-> executedThreatIds]

\* handleSubmit (SatelliteForm.tsx:24-70) with the texts typed into the form.
Submit(nm, a, i, e) ==
    /\ UpToDate
    /\ Len(satellites) < MaxSats
    /\ IF FormRejects(parseFloat(a), parseFloat(i), parseFloat(e))
         THEN UNCHANGED <<satellites, effectDue>>
         ELSE /\ satellites' = Append(satellites,
                     Satellite(IF nm = "" THEN "SAT-417" ELSE nm,
                               parseFloat(a), parseFloat(i), parseFloat(e)))
              /\ effectDue' = TRUE
    /\ UNCHANGED <<storeVarsButSats, screenVars, kpVars, fetchVars, parserVars>>

\* The remove button of the satellite table: removeSatellite(i).
Remove(i) ==
    /\ UpToDate
    /\ i \in DOMAIN satellites
    /\ satellites' = RemoveAt(satellites, i)
    /\ effectDue' = TRUE
    /\ UNCHANGED <<storeVarsButSats, screenVars, kpVars, fetchVars, parserVars>>

\* refreshThreats up to its await (App.tsx:24-28), as the closure of a
\* render that saw the satellites sats and the debris cache cache: the call
\* hands these to fetchThreats.  At most cap refreshes wait at a time.
StartRefreshOf(sats, cache, cap) ==
    /\ Len(sats) > 0
    /\ Len(inflight) < cap
    /\ inflight' = Append(inflight, [satellites |-> sats, debrisCache |-> cache,
                                     overtaken |-> FALSE])

\* refreshThreats of the latest render: it sees the store as it is.
StartRefresh(cap) == StartRefreshOf(satellites, storeDebris, cap)

\* An interval whose callback is the refreshThreats of the render in which
\* it was set, whatever the store holds later.
TimerOfRender == [on |-> TRUE, len |-> Len(satellites), satellites |-> satellites,
                  debrisCache |-> storeDebris]

\* The effect on [satellites.length] (App.tsx:52-61): when the length has
\* changed the old interval is cleared and, with satellites, a new one set.
SetTimer ==
    timer' = IF Len(satellites) = timer.len THEN timer
             ELSE IF Len(satellites) = 0 THEN NoTimer
             ELSE TimerOfRender

\* The effect on [satellites] (App.tsx:40-49): refresh, or clear the threats
\* when no satellite is left.
RunEffect(cap) ==
    /\ UpToDate
    /\ effectDue
    /\ effectDue' = FALSE
    /\ IF Len(satellites) > 0
         THEN StartRefresh(cap) /\ UNCHANGED <<storeThreats, executedThreatIds, appliedOlder>>
         ELSE setThreats(<<>>) /\ appliedOlder' = FALSE /\ UNCHANGED inflight
    /\ SetTimer
    /\ UNCHANGED <<satellites, actionLog, storeDebris, rendered, refreshFailed>>
    /\ UNCHANGED <<screenVars, kpVars, fetchVars, parserVars>>

\* The REFRESH THREATS button (App.tsx:152-157) calls the refreshThreats of
\* the latest render; it is disabled while a refresh is loading.
Refresh ==
    /\ UpToDate
    /\ inflight = <<>>
    /\ StartRefresh(1)
    /\ UNCHANGED <<satellites, storeThreats, actionLog, executedThreatIds, storeDebris,
                   rendered, effectDue, timer, refreshFailed, appliedOlder>>
    /\ UNCHANGED <<screenVars, kpVars, fetchVars, parserVars>>

\* The 60-second interval fires (App.tsx:54-56): it calls the refreshThreats
\* its closure holds.  Pending effects have run by then.
TimerRefresh(cap) ==
    /\ UpToDate
    /\ ~effectDue
    /\ timer.on
    /\ StartRefreshOf(timer.satellites, timer.debrisCache, cap)
    /\ UNCHANGED <<satellites, storeThreats, actionLog, executedThreatIds, storeDebris,
                   rendered, effectDue, timer, refreshFailed, appliedOlder>>
    /\ UNCHANGED <<screenVars, kpVars, fetchVars, parserVars>>

\* The refreshes still waiting once the k-th has been applied: those started
\* before it (now at the indices below k) have been overtaken.
Overtake(q, k) ==
    [i \in DOMAIN q |-> IF i < k THEN [q[i] EXCEPT !.overtaken = TRUE] ELSE q[i]]

\* What the storm check of a refresh comes to: a storm threat, none, or an
\* error of the feed, which fetchKpThreat turns into null (noaa.ts:36-39).
KpOutcomes == {"storm", "quiet", "failed"}

\* fetchThreats of the k-th waiting refresh resolves and refreshThreats goes
\* on with setThreats(t) (App.tsx:28-29).  kpr is the outcome of the storm
\* check; cok says the screening met no error, close which satellites it
\* flagged.  A screening that fails returns [] (conjunction.ts:138-141), and
\* so does one without a debris cache.
RefreshDone(k, kpr, cok, close) ==
    /\ UpToDate
    /\ k \in DOMAIN inflight
    /\ close \subseteq DOMAIN inflight[k].satellites
    /\ Len(inflight[k].debrisCache) = 0 => close = {}
    /\ ~cok => close = {}
    /\ refreshFailed' = (kpr = "failed" \/ ~cok)
    /\ \E t \in { Fetched(inflight[k].satellites, kpr = "storm", close, clock, idCtr) } :
          /\ idCtr + Len(t) <= MaxUuid
          /\ idCtr' = idCtr + Len(t)
          /\ setThreats(t)
    /\ appliedOlder' = inflight[k].overtaken
    /\ inflight' = Overtake(RemoveAt(inflight, k), k)
    /\ UNCHANGED <<satellites, actionLog, storeDebris, rendered, effectDue, timer>>
    /\ UNCHANGED <<screenVarsButId, kpVars, fetchVars, parserVars>>

\* A log that takes the entry at its end.
logActionLast(log, entry) == Append(log, entry)

\* logAction (store.ts:238-239): actionLog: [entry, ...s.actionLog].
logAction(log, entry) == <<entry>> \o log

\* The threat panel renders the store (ThreatPanel.tsx:5-8, 128-148).
Render ==
    /\ ~UpToDate
    /\ rendered' = [threats |-> storeThreats, executed |-> executedThreatIds]
    /\ UNCHANGED <<satellites, storeThreats, actionLog, executedThreatIds, storeDebris,
                   inflight, effectDue, timer, refreshFailed, appliedOlder>>
    /\ UNCHANGED <<screenVars, kpVars, fetchVars, parserVars>>

\* A click on the EXECUTE ACTION button the panel shows for its i-th threat:
\* handleExecute (ThreatPanel.tsx:41-51), markThreatExecuted then logAction.
Click(i) ==
    /\ i \in DOMAIN rendered.threats
    /\ rendered.threats[i].id \notin rendered.executed
    /\ idCtr < MaxUuid
    /\ idCtr' = idCtr + 1
    /\ executedThreatIds' = executedThreatIds \cup {rendered.threats[i].id}
    /\ actionLog' = logAction(actionLog,
                               [id |-> idCtr + 1, time |-> clock,
                                threatId |-> rendered.threats[i].id,
                                action |-> rendered.threats[i].suggestedAction,
                                status |-> "EXECUTED"])
    /\ UNCHANGED <<satellites, storeThreats, storeDebris, rendered, inflight, effectDue, timer, refreshFailed, appliedOlder>>
    /\ UNCHANGED <<screenVarsButId, kpVars, fetchVars, parserVars>>

\* handleLoadFromAPI (SatelliteForm.tsx:74-100) once Promise.all has settled:
\* with an error nothing is stored; otherwise the converted satellites
\* replace the list and the debris records are cached.  Both requests read
\* the same feed.
LoadFromAPI(ok, feed) ==
    /\ UpToDate
    /\ IF ok
         THEN /\ satellites' = [k \in DOMAIN feed |-> tleToSatellite(feed[k])]
              /\ storeDebris' = feed
              /\ effectDue' = TRUE
         ELSE UNCHANGED <<satellites, storeDebris, effectDue>>
    /\ UNCHANGED <<storeThreats, actionLog, executedThreatIds, rendered, inflight, timer, refreshFailed, appliedOlder>>
    /\ UNCHANGED <<screenVars, kpVars, fetchVars, parserVars>>

\* The satellite list on its own: the form, the remove button and the import.
FormNext ==
    \/ \E nm \in NameTexts, a \in SmaTexts, i \in IncTexts, e \in EccTexts : Submit(nm, a, i, e)
    \/ \E i \in 1..MaxSats : Remove(i)
    \/ \E ok \in BOOLEAN, feed \in ImportFeeds : LoadFromAPI(ok, feed)

FormSpec == Init /\ [][FormNext]_vars

\* The threat list, the panel and the action log, with one satellite typed
\* into the form and one imported.
StoreNext ==
    \/ Submit("ISS", "7000", "98", "0")
    \/ \E i \in 1..MaxSats : Remove(i)
    \/ \E ok \in BOOLEAN : LoadFromAPI(ok, <<ImportPool[1]>>)
    \/ RunEffect(MaxInflight)
    \/ Refresh
    \/ TimerRefresh(MaxInflight)
    \/ \E k \in 1..MaxInflight, kpr \in KpOutcomes, cok \in BOOLEAN, close \in SUBSET (1..MaxSats) :
          RefreshDone(k, kpr, cok, close)
    \/ Render
    \/ \E i \in 1..MaxUuid : Click(i)

StoreSpec == Init /\ [][StoreNext]_vars

\* Refreshes that overlap: the satellites effect and the interval start
\* refreshes while others wait, and they settle in any order.  The panel is
\* rendered and not clicked.
OverlapNext ==
    \/ Submit("ISS", "7000", "98", "0")
    \/ \E i \in 1..MaxSats : Remove(i)
    \/ \E ok \in BOOLEAN : LoadFromAPI(ok, <<ImportPool[1]>>)
    \/ RunEffect(MaxOverlap)
    \/ TimerRefresh(MaxOverlap)
    \/ \E k \in 1..MaxOverlap, kpr \in KpOutcomes, cok \in BOOLEAN, close \in SUBSET (1..MaxSats) :
          RefreshDone(k, kpr, cok, close)
    \/ Render

OverlapSpec == Init /\ [][OverlapNext]_vars

----------------------------------------------------------------------------
(* The TLE feed parser: loadTLEs of services/tle.ts and parseTLE *)

\* The pieces a feed text is put together from: two well-formed groups (the
\* second with padded lines), a group with the two markers swapped, a group
\* with its second element line missing, a line of blanks and an empty line.
FeedPieces ==
    { << <<"A">>, <<"1", " ", "a">>, <<"2", " ", "a">> >>,
      << <<"B", " ">>, <<" ", "1", " ", "b">>, <<"2", " ", "b", " ">> >>,
      << <<"C">>, <<"2", " ", "c">>, <<"1", " ", "c">> >>,
      << <<"D">>, <<"1", " ", "d">> >>,
      << <<" ">> >>,
      << <<>> >> }

RECURSIVE Concat(_)
Concat(q) == IF q = <<>> THEN <<>> ELSE Head(q) \o Concat(Tail(q))

FeedTexts == { Concat(q) : q \in SeqsUpTo(FeedPieces, MaxGroups) }

\* String.prototype.trim
RECURSIVE trimStart(_)
trimStart(l) == IF l # <<>> /\ Head(l) = " " THEN trimStart(Tail(l)) ELSE l
RECURSIVE trimEnd(_)
trimEnd(l) == IF l # <<>> /\ l[Len(l)] = " " THEN trimEnd(SubSeq(l, 1, Len(l) - 1)) ELSE l
trim(l) == trimEnd(trimStart(l))

\* String.prototype.startsWith
startsWith(l, prefix) == Len(l) >= Len(prefix) /\ SubSeq(l, 1, Len(prefix)) = prefix

\* filter(Boolean): the empty string is dropped.
NonEmpty(l) == l # <<>>

\* loadTLEs: txt.split(/\r?\n/).filter(Boolean); the lines are trimmed when read.
LinesOfLoad(text) == SelectSeq(text, NonEmpty)

\* parseTLE: txt.split(/\r?\n/).map(l => l.trim()).filter(Boolean)
LinesOfParse(text) == SelectSeq([k \in DOMAIN text |-> trim(text[k])], NonEmpty)

\* With one record too many.
LoopGoesOnLE(ls, i, acc, lim) == i + 2 < Len(ls) /\ Len(acc) <= lim

\* i + 2 < lines.length && out.length < limit
LoopGoesOn(ls, i, acc, lim) == i + 2 < Len(ls) /\ Len(acc) < lim

\* The for loop of both parsers; i counts from 0 as in the code.
RECURSIVE ParseLoop(_, _, _, _)
ParseLoop(ls, i, acc, lim) ==
    IF ~LoopGoesOn(ls, i, acc, lim) THEN acc
    ELSE LET name  == trim(ls[i + 1])
             line1 == trim(ls[i + 2])
             line2 == trim(ls[i + 3])
         IN  ParseLoop(ls, i + 3,
                       IF startsWith(line1, <<"1", " ">>) /\ startsWith(line2, <<"2", " ">>)
                         THEN Append(acc, [name |-> name, line1 |-> line1, line2 |-> line2])
                         ELSE acc,
                       lim)

\* The feed text arrives and the parser is called with it.
Feed(text, lim, w) ==
    /\ parser = "idle"
    /\ txt' = text
    /\ limit' = lim
    /\ which' = w
    /\ parser' = "ready"
    /\ UNCHANGED <<out, screenVars, kpVars, fetchVars, storeVars>>

\* The body of the parser: loadTLEs throws when no record was parsed
\* (tle.ts:36-38), parseTLE returns what it has.
Parse ==
    /\ parser = "ready"
    /\ \E r \in { ParseLoop(IF which = "loadTLEs" THEN LinesOfLoad(txt) ELSE LinesOfParse(txt),
                            0, <<>>, limit) } :
          /\ out' = r
          /\ parser' = IF which = "loadTLEs" /\ Len(r) = 0 THEN "threw" ELSE "done"
    /\ UNCHANGED <<txt, limit, which, screenVars, kpVars, fetchVars, storeVars>>

ParseNext ==
    \/ \E text \in FeedTexts, lim \in 0..MaxLimit, w \in {"loadTLEs", "parseTLE"} :
          Feed(text, lim, w)
    \/ Parse

ParseSpec == Init /\ [][ParseNext]_vars

----------------------------------------------------------------------------
(* What the claims speak of, stated without the loops of the screener *)

\* The sample offsets of a pass, in seconds: 0, 5, 10, ..., 120 minutes.
GridSec == { 60 * 5 * m : m \in 0..24 }

\* Debris propagation of element tle succeeds at absolute time tt.
Propagates(tle, tt) == Sgp4(tle, tt).kind = "pos"

\* The (offset, element index) pairs of a pass for which debris propagation succeeds.
OkPairs(debris, nw) ==
    { p \in GridSec \X DOMAIN debris : Propagates(debris[p[2]], nw + p[1] * 1000) }

\* The satellite-to-debris distance of pair p.
PairDist(u, debris, nw, p) ==
    distKm(userSatEciAt(u, p[1]), Sgp4(debris[p[2]], nw + p[1] * 1000).pos)

\* The least element of a non-empty set of numbers.
Least(D) == CHOOSE d \in D : \A e \in D : d <= e

\* The minimum of the set D of distances, +infinity when it is empty.
MinOf(D) == IF D = {} THEN POSITIVE_INFINITY ELSE Least(D)

\* The minimum over the successfully propagated pairs, +infinity without any.
MinOver(u, debris, nw) ==
    MinOf({ PairDist(u, debris, nw, p) : p \in OkPairs(debris, nw) })

\* The earliest sample time of the pairs ok at distance m; nw without any pair.
FirstAt(u, debris, nw, ok, m) ==
    IF ok = {} THEN nw
    ELSE nw + 1000 * Least({ p[1] : p \in { q \in ok : PairDist(u, debris, nw, q) = m } })

\* The earliest sample time at which some pair attains the minimum; `now`
\* when nothing propagated.
FirstMinTime(u, debris, nw) ==
    FirstAt(u, debris, nw, OkPairs(debris, nw), MinOver(u, debris, nw))

\* The debris the current invocation screens against.
Debris == debrisCache.items

\* A pass is under way or has been made: the guards let the invocation through.
Screened == pc # "idle" /\ now # NoTime

\* Satellite number ui has just been through its time loop.
SatDone == Screened /\ ui > 0

\* A threat without its random id.
StripId(th) == [type |-> th.type, when |-> th.when, severity |-> th.severity,
                sat |-> th.sat, d |-> th.d, suggestedAction |-> th.suggestedAction]
StripIds(q) == [i \in DOMAIN q |-> StripId(q[i])]

\* The indices, in list order, of the satellites screened so far whose
\* minimum sampled distance is below thr.
FlaggedUpTo(n, thr) ==
    LET Below(i) == MinOver(userSats[i], Debris, now) < thr
    IN  SelectSeq([i \in 1..n |-> i], Below)

----------------------------------------------------------------------------
(* Claims *)

C2_ThreatIffBelowThreshold ==
    Screened =>
       LET thr  == IF impl = "tle" THEN 100 ELSE 500
           flag == FlaggedUpTo(Len(results), thr)
       IN  /\ Len(threats) = Len(flag)
           /\ \A j \in DOMAIN threats :
                 /\ threats[j].type = "CONJUNCTION"
                 /\ threats[j].sat = userSats[flag[j]].name
                 /\ threats[j].d = results[flag[j]].d
           /\ \A i \in DOMAIN results :
                 results[i].d = POSITIVE_INFINITY =>
                    \A j \in DOMAIN flag : flag[j] # i

\* Witness of C2: a finished pass in which one satellite sits exactly at the
\* threshold and is not flagged while another is flagged.
C2_Witness ==
    /\ Screened /\ pc = "returned"
    /\ \E i \in DOMAIN results : results[i].d = THRESHOLD_KM(impl)
    /\ Len(threats) >= 1
    /\ Len(threats) < Len(results)

C6_FirstMinimumWins ==
    Screened =>
       /\ \A i \in DOMAIN results :
             /\ results[i].when = FirstMinTime(userSats[i], Debris, now)
             /\ (i = ui => best.when = results[i].when)
             /\ \E o \in GridSec : results[i].when = now + o * 1000
       /\ \A j \in DOMAIN threats :
             \E i \in DOMAIN results :
                threats[j].sat = results[i].name /\ threats[j].when = results[i].when

\* Witness of C6: the minimum is attained at more than one sample time and
\* the reported time is the earliest of them.
C6_Witness ==
    /\ SatDone
    /\ best.d < POSITIVE_INFINITY
    /\ \E p, q \in OkPairs(Debris, now) :
          /\ p[1] < q[1]
          /\ PairDist(userSats[ui], Debris, now, p) = best.d
          /\ PairDist(userSats[ui], Debris, now, q) = best.d
          /\ best.when = now + p[1] * 1000

\* Element k of the catalogue fails to propagate at every instant of the pass.
FailsAlways(debris, nw, k) ==
    \A o \in GridSec : ~Propagates(debris[k], nw + o * 1000)

\* The catalogue without the elements that fail at every instant of the pass.
RECURSIVE DropDead(_, _, _)
DropDead(debris, nw, k) ==
    IF k > Len(debris) THEN <<>>
    ELSE (IF FailsAlways(debris, nw, k) THEN <<>> ELSE <<debris[k]>>)
         \o DropDead(debris, nw, k + 1)

\* C7: a debris element whose propagation fails at a sample instant is
\* skipped for that instant only: every element is still tried at every
\* instant, every pair that does propagate bounds the minimum, an element
\* failing at every instant changes nothing, and no error is raised.
C7_FailureSkipsOnePair ==
    /\ status = "ok"
    /\ (Screened /\ pc = "returned" => Len(results) = Len(userSats))
    /\ SatDone =>
          /\ tried = 25 * Len(Debris)
          /\ \A p \in OkPairs(Debris, now) :
                best.d <= PairDist(userSats[ui], Debris, now, p)
          /\ best.d = MinOver(userSats[ui], DropDead(Debris, now, 1), now)
          /\ (best.d = POSITIVE_INFINITY <=> OkPairs(Debris, now) = {})

\* Witness of C7: next to an element that fails at every instant, an
\* element that fails at some instants only gives the minimum, found at an
\* instant where it does propagate.
C7_Witness ==
    /\ SatDone /\ pc = "returned" /\ status = "ok"
    /\ \E k \in DOMAIN Debris : FailsAlways(Debris, now, k)
    /\ \E k \in DOMAIN Debris :
          /\ \E o \in GridSec : ~Propagates(Debris[k], now + o * 1000)
          /\ \E o \in GridSec :
                /\ Propagates(Debris[k], now + o * 1000)
                /\ PairDist(userSats[ui], Debris, now, <<o, k>>) = best.d
    /\ Len(threats) >= 1

C9_NoSatellitesNoWork ==
    (pc # "idle" /\ userSats = <<>>) =>
       /\ pc = "returned"
       /\ threats = <<>>
       /\ status = "ok"
       /\ propCalls = 0
       /\ ~Screened

\* Witness of C9: an invocation without satellites and with a catalogue of
\* two elements has returned.
C9_Witness ==
    /\ pc = "returned"
    /\ userSats = <<>>
    /\ debrisCache.defined
    /\ Len(Debris) >= 2

----------------------------------------------------------------------------
(* Claims on the storm check *)

\* The latest reading of the feed the storm check settled on.
Latest == kpFeed.items[Len(kpFeed.items)]

\* The feed is an array whose last element is an object.
HasLatest ==
    /\ kpFeed.net = "ok" /\ kpFeed.body = "json" /\ kpFeed.isArray
    /\ Len(kpFeed.items) > 0
    /\ Latest.isObject

\* The index value of the latest reading: kp_index when present, else kp.
LatestIndex == IF Latest.kp_index.kind # "absent" THEN Latest.kp_index ELSE Latest.kp

Unusable ==
    \/ kpFeed.net # "ok"
    \/ kpFeed.body # "json"
    \/ ~kpFeed.isArray
    \/ Len(kpFeed.items) = 0
    \/ ~Latest.isObject
    \/ LatestIndex.kind # "num"
    \/ Latest.time_tag.kind = "invalid"

\* C19: a failed or unusable geomagnetic feed (network error, non-JSON body,
\* non-array or empty array, non-numeric index value, unparsable time tag)
\* makes fetchKpThreat return no threat, and fetchKpThreat never throws.
C19_UnusableFeedNoThreat ==
    /\ kpc # "threw"
    /\ (kpc = "settled" /\ Unusable) => ~kpThreat.some

\* Witness of C19: the latest reading says 7 but its time tag does not
\* parse; the storm check settled with no threat.
C19_Witness ==
    /\ kpc = "settled"
    /\ HasLatest
    /\ LatestIndex = Num(7)
    /\ Latest.time_tag = BadTag
    /\ ~kpThreat.some

----------------------------------------------------------------------------
(* Claims on the threat aggregator *)

\* C11: the list fetchThreats returns holds the storm threat first (when
\* there is one), followed by exactly one conjunction threat per user
\* satellite whose minimum distance is below the threshold (500 km in the
\* screener api.ts imports), in the order of the input list.
C11_StormThenConjunctionsInOrder ==
    fpc = "resolved" =>
       LET k    == IF kpThreat.some THEN 1 ELSE 0
           flag == IF now = NoTime THEN <<>> ELSE FlaggedUpTo(Len(userSats), 500)
       IN  /\ userSats = fargs.satellites
           /\ Len(fetched) = k + Len(flag)
           /\ (k = 1 => fetched[1] = kpThreat.threat /\ fetched[1].type = "CME")
           /\ \A j \in DOMAIN flag :
                 /\ fetched[k + j].type = "CONJUNCTION"
                 /\ fetched[k + j].sat = userSats[flag[j]].name
                 /\ fetched[k + j].d = MinOver(userSats[flag[j]], Debris, now)
           /\ \A i, j \in DOMAIN fetched : i # j => fetched[i].id # fetched[j].id

\* Witness of C11: a storm and two different satellites, both flagged: three
\* threats, the storm first, the satellites in input order.
C11_Witness ==
    /\ fpc = "resolved"
    /\ Len(fetched) = 3
    /\ Len(userSats) = 2 /\ userSats[1].name # userSats[2].name
    /\ fetched[1].type = "CME"
    /\ fetched[2].sat = userSats[1].name
    /\ fetched[3].sat = userSats[2].name

\* The storm check failed: no answer from the feed.
KpFailed == kpFeed.net # "ok" \/ kpFeed.body # "json"

C12_StormWithoutCatalogue ==
    /\ fpc = "resolved"
    /\ ~debrisCache.defined /\ Len(userSats) > 0
    /\ Len(fetched) = 1 /\ fetched[1].type = "CME"

\* C13 as stated: conjunction screening is started without waiting for the
\* geomagnetic fetch: whenever fetchThreats has its request to the Kp feed
\* outstanding, screenConjunctions has already been called.
C13_ScreeningStartedWhileKpPending ==
    (fpc = "awaitKp" /\ kpc = "pending") => pc # "idle"

\* What the code does instead: screening is entered only once the storm
\* check has settled.
C13_ScreeningWaitsForKp ==
    pc # "idle" => kpc = "settled"

----------------------------------------------------------------------------
(* Claims on the store, the threat panel and the satellite form *)

SameDanger(s, t) ==
    /\ s.type = t.type
    /\ (s.type = "CONJUNCTION" => s.sat = t.sat)

\* C15 as stated: when the threats refresh, a danger (same kind, same
\* satellite) that was marked executed before the refresh is marked executed
\* after it.
C15_ExecutedStaysExecuted ==
    [][ \A j \in DOMAIN storeThreats : \A i \in DOMAIN storeThreats' :
           (storeThreats[j].id \in executedThreatIds
               /\ SameDanger(storeThreats[j], storeThreats'[i]))
           => storeThreats'[i].id \in executedThreatIds' ]_vars

\* A value is a finite number.
Finite(x) == x.kind = "num"

\* The elements are in the domain of the screener: a finite semi-major axis
\* above 6371 km, an eccentricity in [0, 1), an inclination in [0, 180].
ElementsInDomain(sma, inc, ecc) ==
    /\ Finite(sma) /\ Finite(inc) /\ Finite(ecc)
    /\ sma.v > 6371 * 1000
    /\ 0 <= ecc.v /\ ecc.v < 1000
    /\ 0 <= inc.v /\ inc.v <= 180 * 1000

\* C16 as stated: submitting the form with an invalid element (non-finite,
\* semi-major axis <= 6371 km, eccentricity outside [0, 1), inclination
\* outside [0, 180]) is rejected: the satellite list is unchanged.
C16_InvalidFormRejected ==
    [][ \A nm \in NameTexts, a \in SmaTexts, i \in IncTexts, e \in EccTexts :
           (~ElementsInDomain(parseFloat(a), parseFloat(i), parseFloat(e))
               /\ Submit(nm, a, i, e))
           => satellites' = satellites ]_vars

\* C17 as stated: every satellite in the store, from the form or from the
\* import, has its elements in the domain of the screener.
C17_StoredSatellitesInDomain ==
    \A k \in DOMAIN satellites :
       ElementsInDomain(satellites[k].semiMajorAxisKm, satellites[k].inclinationDeg,
                        satellites[k].eccentricity)

----------------------------------------------------------------------------
(* Claims on the TLE feed parser *)

\* The lines of the feed the parser goes through, trimmed.
FeedLines ==
    LET kept == SelectSeq(txt, LAMBDA l : IF which = "loadTLEs" THEN l # <<>>
                                                                ELSE trim(l) # <<>>)
    IN  [k \in DOMAIN kept |-> trim(kept[k])]

\* Records q are groups of three consecutive feed lines, taken in feed
\* order without overlap.
InFeedOrder(q, fl) ==
    \E pos \in [DOMAIN q -> 1..Len(fl)] :
       /\ \A k \in DOMAIN q :
             /\ pos[k] + 2 <= Len(fl)
             /\ q[k].name = fl[pos[k]]
             /\ q[k].line1 = fl[pos[k] + 1]
             /\ q[k].line2 = fl[pos[k] + 2]
       /\ \A k \in 1..(Len(q) - 1) : pos[k] + 3 <= pos[k + 1]

\* C20: every record the TLE feed parser returns has a first element line
\* beginning with "1 " and a second beginning with "2 ", the records appear
\* in feed order, and no more than `limit` records are returned.
C20_PrefixesOrderLimit ==
    parser \in {"done", "threw"} =>
       /\ Len(out) <= limit
       /\ \A k \in DOMAIN out :
             /\ Len(out[k].line1) >= 2 /\ out[k].line1[1] = "1" /\ out[k].line1[2] = " "
             /\ Len(out[k].line2) >= 2 /\ out[k].line2[1] = "2" /\ out[k].line2[2] = " "
       /\ InFeedOrder(out, FeedLines)

\* Witness of C20: a feed with a malformed group and two well-formed ones,
\* read with limit 1: one record, the first well-formed group of the feed.
C20_Witness ==
    /\ parser = "done"
    /\ limit = 1
    /\ Len(txt) = 9
    /\ txt[1] = <<"C">> /\ txt[4] = <<"B", " ">> /\ txt[7] = <<"A">>
    /\ out = << [name |-> <<"B">>, line1 |-> <<"1", " ", "b">>, line2 |-> <<"2", " ", "b">>] >>

\* The positions of the feed lines at which a well-formed group starts: a
\* name line followed by a line beginning with "1 " and one with "2 ".
WellFormedAt(fl) ==
    { p \in 1..(Len(fl) - 2) :
         /\ fl[p] # <<>>
         /\ ~startsWith(fl[p], <<"1", " ">>) /\ ~startsWith(fl[p], <<"2", " ">>)
         /\ startsWith(fl[p + 1], <<"1", " ">>)
         /\ startsWith(fl[p + 2], <<"2", " ">>) }

\* C21 as stated: a malformed group (wrong marker prefix, or a missing line)
\* is skipped without crashing and without affecting later groups: in a
\* feed without blank lines every well-formed group is returned, up to the
\* limit.
C21_MalformedGroupSkipped ==
    (parser \in {"done", "threw"} /\ \A k \in DOMAIN txt : trim(txt[k]) # <<>>) =>
       LET wf == WellFormedAt(FeedLines)
       IN  /\ (wf # {} /\ limit > 0 => parser = "done")
           /\ Len(out) = (IF Cardinality(wf) < limit THEN Cardinality(wf) ELSE limit)

----------------------------------------------------------------------------
(* Further claims on the screener *)

\* What a pass over the single satellite u gives for it, with the debris
\* and the `now` of the pass under way.
Alone(u) ==
    TimeLoop([best |-> InitBest(now), tried |-> 0, threw |-> FALSE, samples |-> <<>>],
             u, Debris, now, now, now + HorizonMs).best

CloseSteps(u, tle, nw, im) ==
    { m \in 0..24 :
         /\ Propagates(tle, nw + m * StepMs)
         /\ distKm(userSatEciAt(u, m * STEP_SEC), Sgp4(tle, nw + m * StepMs).pos)
               < THRESHOLD_KM(im) }

\* The evaluations a pair gets when it is dropped after its first close
\* approach: all 25 samples when it has none.
EvaluationsOfPair(u, tle, nw, im) ==
    IF CloseSteps(u, tle, nw, im) = {} THEN 25
    ELSE Least(CloseSteps(u, tle, nw, im)) + 1

\* The same summed over the debris from element k on.
RECURSIVE EvaluationsFrom(_, _, _, _, _)
EvaluationsFrom(u, debris, nw, im, k) ==
    IF k > Len(debris) THEN 0
    ELSE EvaluationsOfPair(u, debris[k], nw, im) + EvaluationsFrom(u, debris, nw, im, k + 1)

\* C29 as stated: a pair is terminated early; once a close approach has
\* been found for it, it is not evaluated at any later sample time, so the
\* debris propagations made for a satellite number no more than the
\* evaluations up to each pair's first close approach.
C29_PairTerminatedEarly ==
    SatDone => tried <= EvaluationsFrom(userSats[ui], Debris, now, impl, 1)

\* The satellite array keeps to the contract: every element is a satellite.
InContract(sats) == \A i \in DOMAIN sats : sats[i] # NullSat

\* C28: screenConjunctions never throws on in-contract inputs, and an
\* exception raised while a pass is under way makes it return the empty
\* list: the threats built for the satellites screened before are dropped.
C28_CaughtReturnsEmpty ==
    /\ status \in {"ok", "caught"}
    /\ (Screened /\ InContract(userSats) => status = "ok")
    /\ (status = "caught" => pc = "returned" /\ threats = <<>>)

\* Witness of C28: the pass had flagged its first satellite when the second
\* element, a null, raised; the call returned nothing.
C28_Witness ==
    /\ pc = "returned"
    /\ status = "caught"
    /\ Len(results) = 1
    /\ IsThreat(results[1].d, impl)
    /\ threats = <<>>

----------------------------------------------------------------------------
(* Further claims on the store *)

\* A threat check has just been started: refreshThreats handed its
\* arguments to fetchThreats.
CheckStarted == Len(inflight') > Len(inflight)

\* C23 as stated: once debris is cached, every threat check that is started
\* (by the interval, by the effect on the satellites, by the button) screens
\* the satellite list and the debris cache the store holds at that time.
C23_ChecksScreenCurrentStore ==
    [][(CheckStarted /\ Len(storeDebris) > 0) =>
          /\ inflight'[Len(inflight')].satellites = satellites
          /\ inflight'[Len(inflight')].debrisCache = storeDebris]_vars

\* A threat check has just completed: fetchThreats settled and
\* refreshThreats went on.
CheckCompleted == Len(inflight') < Len(inflight)

\* C24 as stated: when a refresh fails (the Kp feed or the screening
\* errors) the threat list of the store is left exactly as it was.
C24_FailedRefreshKeepsThreats ==
    [][(CheckCompleted /\ refreshFailed') => storeThreats' = storeThreats]_vars

\* The ids of the threats of a list.
Ids(q) == { q[i].id : i \in DOMAIN q }

SetThreatsStep ==
    \/ CheckCompleted
    \/ effectDue /\ ~effectDue' /\ Len(satellites) = 0

C26_NoSatellitesNoThreats ==
    (Len(satellites) = 0 /\ ~effectDue) => storeThreats = <<>>

\* C27 as stated: when two refreshes overlap, the threat list left once both
\* have completed is the result of the one started last, whichever
\* completed first.
C27_LastStartedWins == (inflight = <<>>) => ~appliedOlder

\* C30: the action log is preserved: a step either leaves it alone or puts
\* one entry in front of it (newest first), the entries it held unchanged
\* and in their order; this holds for every store operation, refreshes
\* that drop the threat an entry refers to included.
C30_ActionLogPreserved ==
    [][ \/ actionLog' = actionLog
        \/ /\ Len(actionLog') = Len(actionLog) + 1
           /\ \A k \in DOMAIN actionLog : actionLog'[k + 1] = actionLog[k]
           /\ actionLog'[1].threatId \in Ids(rendered.threats) ]_vars

\* Witness of C30: two threats were executed, the later entry is in front;
\* the last satellite was then removed and the threats cleared, and the log
\* still holds both entries.
C30_Witness ==
    /\ Len(actionLog) = 2
    /\ actionLog[1].id > actionLog[2].id
    /\ actionLog[1].threatId # actionLog[2].threatId
    /\ Len(satellites) = 0
    /\ storeThreats = <<>>
    /\ executedThreatIds = {}

====
